---- MODULE Spec2Model ----
(***************************************************************************)
(* Model of the task-list HTTP service of src/main.py: the handlers        *)
(* create_task, list_tasks, update_task, delete_task and test_database,    *)
(* acting on the "task" collection of a document store.                    *)
(*                                                                         *)
(* Values.  An optional value is a sequence of length at most one: None is *)
(* <<>> (Python None, JSON/BSON null) and Some(v) is <<v>>.  Text that is   *)
(* searched (title, description, q) is a sequence of one-character         *)
(* strings; text that is only compared (category, priority) is a string.   *)
(* An ObjectId is its 12 bytes; its string form is 24 hexadecimal digits.   *)
(* A datetime is a natural number (a reading of the server clock).          *)
(***************************************************************************)
EXTENDS Integers, Sequences, FiniteSets, TLC

VARIABLES db, store, nextOid, writes, req, resp, issued, deleted, upd, applied, orig

vars == <<db, store, nextOid, writes, req, resp, issued, deleted, upd, applied, orig>>

\* db        database.db is a handle (TRUE) or None (FALSE)
\* store     the documents of db["task"], in insertion order
\* nextOid   how many ObjectIds the store has handed out
\* writes    how many create_task/update_task requests have written to the store
\* req       history: the request just served: the handler and its inputs
\* resp      the response to it: the handler, the HTTP status, the body
\* issued    history: the id each create_task returned and the _id it inserted, for the tasks not deleted since
\* deleted   history: the ObjectIds of the tasks delete_task removed
\* upd       the update_task requests in flight (SpecConc)
\* applied   history: the order in which their store calls took effect (SpecConc)
\* orig      history: the document the in-flight updates aim at, as inserted (SpecConc)

(* ------------------------------ bounds --------------------------------- *)

\* Latest reading of the server clock.
MaxTime == 2
\* Successful create/update writes in one run.
MaxWrites == 2
\* Concurrent update_task requests in flight in SpecConc.
NProcs == 2
\* Longest list of collection names the store reports to test_database.
MaxColls == 12
\* Longest exception text list_collection_names raises with.
MaxErrLen == 52

(* ------------------------- program constants --------------------------- *)

\* collections[:10]
CollLimit == 10
\* str(e)[:50]
ErrLimit == 50

(* ------------------------------ values --------------------------------- *)

None == <<>>
Some(v) == <<v>>

Min(a, b) == IF a <= b THEN a ELSE b

\* s[:n] for a sequence s
Take(s, n) == SubSeq(s, 1, Min(n, Len(s)))

Range(s) == {s[i] : i \in 1..Len(s)}

\* Python truthiness of an Optional[str] held as a string: None and "" are falsy.
TruthyStr(o) == o # None /\ o[1] # ""

\* Python truthiness of an Optional[str] held as characters: None and "" are falsy.
TruthyText(o) == o # None /\ Len(o[1]) > 0

(* ----------------------------- ObjectId -------------------------------- *)

HexDigits == <<"0", "1", "2", "3", "4", "5", "6", "7",
               "8", "9", "a", "b", "c", "d", "e", "f">>

\* The value of each hexadecimal digit, either case.
HexValues ==
  [c \in Range(HexDigits) |-> (CHOOSE i \in 1..16 : HexDigits[i] = c) - 1]
    @@ [c \in {"A", "B", "C", "D", "E", "F"} |->
          CASE c = "A" -> 10 [] c = "B" -> 11 [] c = "C" -> 12
            [] c = "D" -> 13 [] c = "E" -> 14 [] c = "F" -> 15]

HexVal(c) == HexValues[c]

IsHex(c) == c \in DOMAIN HexValues

\* The k-th ObjectId the store hands out: twelve bytes, here eleven zero bytes
\* and a last byte that counts from 10, so that the string form has letters.
GenOid(k) == [i \in 1..12 |-> IF i = 12 THEN 10 + k ELSE 0]

\* str(oid): two lower-case hexadecimal digits per byte.
OidStr(oid) ==
  [i \in 1..24 |-> IF i % 2 = 1 THEN HexDigits[(oid[(i + 1) \div 2] \div 16) + 1]
                                  ELSE HexDigits[(oid[i \div 2] % 16) + 1]]

\* ObjectId.is_valid for a str: exactly 24 hexadecimal digits, either case.
ValidOidStr(s) == Len(s) = 24 /\ \A i \in 1..24 : IsHex(s[i])

\* Variant of ParseOid that reads the letters a-f/A-F as 0.
ParseOidDigitsOnly(s) ==
  [i \in 1..12 |->
     16 * (IF s[2 * i - 1] \in {"0", "1", "2", "3", "4", "5", "6", "7", "8", "9"}
           THEN HexVal(s[2 * i - 1]) ELSE 0)
     + (IF s[2 * i] \in {"0", "1", "2", "3", "4", "5", "6", "7", "8", "9"}
        THEN HexVal(s[2 * i]) ELSE 0)]
\* ObjectId(s) for a valid s.
ParseOid(s) == [i \in 1..12 |-> 16 * HexVal(s[2 * i - 1]) + HexVal(s[2 * i])]

(* ------------------------------ datetime ------------------------------- *)

\* datetime.isoformat(): the clock reading t as text, seconds as two digits.
IsoFormat(t) == <<"1970-01-01T00:00:", t \div 10, t % 10>>

\* The values datetime.utcnow() returns.
Times == 0..MaxTime

(* --------------------------- request bodies ---------------------------- *)

PayloadFields == {"title", "description", "category", "due_date", "priority"}
UpdateFields == PayloadFields \cup {"completed"}

\* TaskCreate bodies the model sends.
CreatePayloads ==
  { [title |-> Some(<<"A", "b">>), description |-> None, category |-> None,
     due_date |-> None, priority |-> None],
    [title |-> Some(<<"c", ".">>), description |-> Some(<<"a", "B">>),
     category |-> Some("work"), due_date |-> Some(7), priority |-> Some("high")] }

\* TaskUpdate bodies the model sends; an omitted field and a null one are both None.
NoUpdate == [k \in UpdateFields |-> None]
UpdatePayloads ==
  { NoUpdate,
    [NoUpdate EXCEPT !.completed = Some(TRUE)],
    [NoUpdate EXCEPT !.completed = Some(FALSE)],
    [NoUpdate EXCEPT !.title = Some(<<>>)],
    [NoUpdate EXCEPT !.title = Some(<<"B", "c">>), !.description = Some(<<"b">>),
                     !.category = Some("home"), !.due_date = Some(9),
                     !.priority = Some("low")] }

\* Path parameters task_id the model sends: the string forms of the ObjectIds
\* the store can hand out, one of them in upper case, and two malformed ones.
UpperHex(s) == [i \in 1..Len(s) |->
                  CASE s[i] = "a" -> "A" [] s[i] = "b" -> "B" [] s[i] = "c" -> "C"
                    [] s[i] = "d" -> "D" [] s[i] = "e" -> "E" [] s[i] = "f" -> "F"
                    [] OTHER -> s[i]]
MalformedIds ==
  { [i \in 1..23 |-> "0"],
    [i \in 1..24 |-> IF i = 24 THEN "g" ELSE "0"] }
TaskIds ==
  {OidStr(GenOid(k)) : k \in 0..MaxWrites}
    \cup {UpperHex(OidStr(GenOid(0)))} \cup MalformedIds

\* TaskUpdate bodies of the concurrent requests of SpecConc.
ConcPayloads ==
  { [NoUpdate EXCEPT !.completed = Some(TRUE)],
    [NoUpdate EXCEPT !.title = Some(<<>>)],
    [NoUpdate EXCEPT !.title = Some(<<"B", "c">>), !.description = Some(<<"b">>),
                     !.category = Some("home"), !.due_date = Some(9),
                     !.priority = Some("low")] }

\* ObjectId(task_id) for every task_id the model sends: the parsed identifier,
\* or None where bson raises InvalidId.
ObjectId ==
  [s \in TaskIds |-> IF ValidOidStr(s) THEN Some(ParseOid(s)) ELSE None]

\* Query parameters of list_tasks the model sends.
Categories == {None, Some(""), Some("work")}
Queries == {None, Some(<<>>), Some(<<"B">>), Some(<<".">>), Some(<<"b", "c">>)}
ListQueries ==
  { <<None, None>>, <<Some(""), Some(<<>>)>>, <<Some("work"), None>>,
    <<None, Some(<<"B">>)>>, <<None, Some(<<".">>)>>, <<None, Some(<<"b", "c">>)>>,
    <<Some("work"), Some(<<"B">>)>>, <<Some("work"), Some(<<".">>)>> }

(* --------------------------- document store ---------------------------- *)

\* Variant of NewTask that leaves completed unset.
NewTaskCompletedNull(payload) ==
  [k \in UpdateFields |-> IF k = "completed" THEN None ELSE payload[k]]
\* schemas.Task built from a TaskCreate body: Task(**payload.model_dump(), completed=False)
NewTask(payload) ==
  [k \in UpdateFields |-> IF k = "completed" THEN Some(FALSE) ELSE payload[k]]

\* database.create_document: the model's fields, the two server timestamps and
\* the _id the store assigns on insert_one.
CreateDocument(task, t, oid) ==
  task @@ [created_at |-> t, updated_at |-> t, _id |-> oid]

\* Python re / PCRE search of a pattern made of literal characters and ".",
\* with option "i": some position of the text where every pattern character
\* is "." or equals the text character up to case.
Lower(c) == CASE c = "A" -> "a" [] c = "B" -> "b" [] OTHER -> c
RegexSearch(pattern, text) ==
  \E i \in 0..(Len(text) - Len(pattern)) :
    \A j \in 1..Len(pattern) :
      pattern[j] = "." \/ Lower(pattern[j]) = Lower(text[i + j])

\* {"field": {"$regex": q, "$options": "i"}}: a null field matches no pattern.
RegexMatches(value, q) == value # None /\ RegexSearch(q, value[1])

\* filter_dict of list_tasks: an absent key is None.
FilterDict(category, q) ==
  [category |-> IF TruthyStr(category) THEN category ELSE None,
   regex |-> IF TruthyText(q) THEN q ELSE None]

\* Whether a document satisfies filter_dict (the keys of a filter are ANDed).
Matches(doc, f) ==
  /\ f.category # None => doc.category = f.category
  /\ f.regex # None =>
       \/ RegexMatches(doc.title, f.regex[1])
       \/ RegexMatches(doc.description, f.regex[1])

\* database.get_documents: list(db[collection].find(filter_dict)).
GetDocuments(coll, f) == SelectSeq(coll, LAMBDA d : Matches(d, f))

\* Variant of UpdateData that keeps the null fields of the payload.
UpdateDataKeepNulls(payload, t) ==
  [k \in UpdateFields \cup {"updated_at"} |->
     IF k = "updated_at" THEN t ELSE payload[k]]
\* The {k: v ... if v is not None} of update_task plus updated_at.
UpdateData(payload, t) ==
  [k \in {f \in UpdateFields : payload[f] # None} \cup {"updated_at"} |->
     IF k = "updated_at" THEN t ELSE payload[k]]

\* {"$set": data} applied to one document.
SetFields(doc, data) ==
  [k \in DOMAIN doc \cup DOMAIN data |->
     IF k \in DOMAIN data THEN data[k] ELSE doc[k]]

\* Positions of the documents with this _id.
Positions(coll, oid) == {i \in 1..Len(coll) : coll[i]._id = oid}

\* Variant of FindOneAndUpdate with upsert=True: a missing document is inserted.
FindOneAndUpdateUpsert(coll, oid, data) ==
  IF Positions(coll, oid) = {}
  THEN [coll |-> Append(coll, SetFields([_id |-> oid], data)),
        result |-> Some(SetFields([_id |-> oid], data))]
  ELSE LET i == CHOOSE j \in Positions(coll, oid) : \A k \in Positions(coll, oid) : j <= k
           d == SetFields(coll[i], data)
       IN [coll |-> [coll EXCEPT ![i] = d], result |-> Some(d)]
\* find_one_and_update({"_id": oid}, {"$set": data}, return_document=True),
\* without upsert: the collection afterwards and the updated document, or None.
FindOneAndUpdate(coll, oid, data) ==
  IF Positions(coll, oid) = {}
  THEN [coll |-> coll, result |-> None]
  ELSE LET i == CHOOSE j \in Positions(coll, oid) : \A k \in Positions(coll, oid) : j <= k
           d == SetFields(coll[i], data)
       IN [coll |-> [coll EXCEPT ![i] = d], result |-> Some(d)]

\* Variant of DeleteOne that empties the collection on a match (delete_many({})).
DeleteOneDropsAll(coll, oid) ==
  IF Positions(coll, oid) = {}
  THEN [coll |-> coll, deleted_count |-> 0]
  ELSE [coll |-> <<>>, deleted_count |-> 1]
\* delete_one({"_id": oid}): the collection afterwards and deleted_count.
DeleteOne(coll, oid) ==
  IF Positions(coll, oid) = {}
  THEN [coll |-> coll, deleted_count |-> 0]
  ELSE LET i == CHOOSE j \in Positions(coll, oid) : \A k \in Positions(coll, oid) : j <= k
       IN [coll |-> SubSeq(coll, 1, i - 1) \o SubSeq(coll, i + 1, Len(coll)),
           deleted_count |-> 1]

\* The normalisation list_tasks and update_task apply to a document before
\* returning it: _id popped and rendered into id, datetimes as ISO-8601 text.
Render(doc) ==
  [k \in (DOMAIN doc \ {"_id"}) \cup {"id"} |->
     CASE k = "id" -> OidStr(doc._id)
       [] k \in {"created_at", "updated_at"} -> IsoFormat(doc[k])
       [] k = "due_date" /\ doc[k] # None -> Some(IsoFormat(doc[k][1]))
       [] OTHER -> doc[k]]

(* ------------------------------ responses ------------------------------ *)

Ok(op, body) == [op |-> op, status |-> 200, body |-> body]
\* HTTPException(status_code=500, detail=str(e))
ServerError(op, detail) == [op |-> op, status |-> 500, body |-> [detail |-> detail]]

\* Exceptions raised inside a handler's try block.
HTTPException(status_code, detail) == [http |-> TRUE, status |-> status_code, detail |-> detail]
Exception(detail) == [http |-> FALSE, status |-> 0, detail |-> detail]

\* Variant of Except without the "except HTTPException: raise" clause.
ExceptAllServerError(op, e) == ServerError(op, e.detail)
\* The except clauses of update_task and delete_task: an HTTPException is
\* re-raised as it is, anything else becomes a 500 with str(e) as detail.
Except(op, e) ==
  IF e.http THEN [op |-> op, status |-> e.status, body |-> [detail |-> e.detail]]
  ELSE ServerError(op, e.detail)

\* The body list_tasks returns: the matching documents, each normalised.
ListBody(coll, category, q) ==
  LET docs == GetDocuments(coll, FilterDict(category, q))
  IN [i \in 1..Len(docs) |-> Render(docs[i])]

(* ----------------------- concurrent update state ----------------------- *)

Procs == 1..NProcs

Idle == [pc |-> "idle", task_id |-> <<>>, data |-> <<>>, result |-> None, status |-> 0]

\* No request served yet, or its response has gone out.
NoRequest == [op |-> "none"]
NoResponse == [op |-> "none", status |-> 0, body |-> None]

(* -------------------------------- Init --------------------------------- *)

\* What the collection can hold when the service starts: nothing, or a task
\* an earlier run of the service inserted (the service never clears it).
InitialStores ==
  { <<>>,
    <<CreateDocument(NewTask([title |-> Some(<<"A", "b">>), description |-> None,
                              category |-> None, due_date |-> None,
                              priority |-> None]), 0, GenOid(0))>> }

\* The state after import: database.db is a handle or None and stays so; the
\* collection is as the store has it; nothing has been answered yet.
Init ==
  /\ db \in BOOLEAN
  /\ store \in InitialStores
  /\ nextOid = Len(store)
  /\ writes = 0
  /\ req = NoRequest
  /\ resp = NoResponse
  /\ issued = {}
  /\ deleted = {}
  /\ upd = [p \in Procs |-> Idle]
  /\ applied = <<>>
  /\ orig = IF store = <<>> THEN None ELSE Some(store[1])

(* ------------------------------ handlers ------------------------------- *)

\* Requests are served concurrently, each in a worker thread.  A handler
\* touches the collection in one store call, which the store executes
\* atomically; everything before and after that call works on the request's
\* own values.  An action below is the store call of one request taking
\* effect, together with the response computed from its result.  What the
\* request did before the call is its input: the path and body parameters and,
\* for a request that writes a timestamp, t, the value datetime.utcnow()
\* returned to it.  Other requests are served between that reading and the
\* call, and utcnow() is the wall clock, so the readings need not arrive at
\* the store in the order they were taken: t is any clock value, whatever the
\* timestamps already stored.

\* POST /api/tasks.  t: the clock reading create_document took before
\* insert_one.  fault: the store raises during insert_one.
create_task(payload, t, fault) ==
  /\ req' = [op |-> "create", payload |-> payload, t |-> t, fault |-> fault]
  /\ IF ~db \/ fault
     THEN /\ resp' = ServerError("create", IF ~db THEN <<"Database not available">>
                                                  ELSE <<"store error">>)
          /\ UNCHANGED <<store, nextOid, writes, issued>>
     ELSE /\ writes < MaxWrites
          /\ LET oid == GenOid(nextOid)
                 inserted_id == OidStr(oid)
             IN /\ store' = Append(store, CreateDocument(NewTask(payload), t, oid))
                /\ resp' = Ok("create", [id |-> inserted_id])
                /\ issued' = issued \cup {[id |-> inserted_id, oid |-> oid]}
          /\ nextOid' = nextOid + 1
          /\ writes' = writes + 1
  /\ UNCHANGED <<db, deleted>>

\* GET /api/tasks.  fault: the store raises during find.
list_tasks(category, q, fault) ==
  /\ req' = [op |-> "list", category |-> category, q |-> q, fault |-> fault]
  /\ IF ~db \/ fault
     THEN resp' = ServerError("list", IF ~db THEN <<"Database not available">>
                                             ELSE <<"store error">>)
     ELSE resp' = Ok("list", ListBody(store, category, q))
  /\ UNCHANGED <<db, store, nextOid, writes, issued, deleted>>

\* PATCH /api/tasks/{task_id}.  t: the clock reading of line 116, taken before
\* the store call of line 117.  fault: the store raises during
\* find_one_and_update.
update_task(task_id, payload, t, fault) ==
  /\ req' = [op |-> "update", task_id |-> task_id, payload |-> payload, t |-> t,
             fault |-> fault]
  /\ IF ~db
     THEN /\ resp' = Except("update", Exception(<<"Database not available">>))
          /\ UNCHANGED <<store, writes>>
     ELSE IF ObjectId[task_id] = None
     THEN /\ resp' = Except("update", Exception(<<"not a valid ObjectId", task_id>>))
          /\ UNCHANGED <<store, writes>>
     ELSE IF fault
     THEN /\ resp' = Except("update", Exception(<<"store error">>))
          /\ UNCHANGED <<store, writes>>
     ELSE LET data == UpdateData(payload, t)
              r == FindOneAndUpdate(store, ObjectId[task_id][1], data)
          IN IF r.result = None
             THEN /\ resp' = Except("update", HTTPException(404, <<"Task not found">>))
                  /\ UNCHANGED <<store, writes>>
             ELSE /\ writes < MaxWrites
                  /\ store' = r.coll
                  /\ resp' = Ok("update", Render(r.result[1]))
                  /\ writes' = writes + 1
  /\ UNCHANGED <<db, nextOid, issued, deleted>>

\* DELETE /api/tasks/{task_id}.  fault: the store raises during delete_one.
delete_task(task_id, fault) ==
  /\ req' = [op |-> "delete", task_id |-> task_id, fault |-> fault]
  /\ IF ~db
     THEN /\ resp' = Except("delete", Exception(<<"Database not available">>))
          /\ UNCHANGED <<store, issued, deleted>>
     ELSE IF ObjectId[task_id] = None
     THEN /\ resp' = Except("delete", Exception(<<"not a valid ObjectId", task_id>>))
          /\ UNCHANGED <<store, issued, deleted>>
     ELSE IF fault
     THEN /\ resp' = Except("delete", Exception(<<"store error">>))
          /\ UNCHANGED <<store, issued, deleted>>
     ELSE LET res == DeleteOne(store, ObjectId[task_id][1])
          IN IF res.deleted_count = 0
             THEN /\ resp' = Except("delete", HTTPException(404, <<"Task not found">>))
                  /\ UNCHANGED <<store, issued, deleted>>
             ELSE /\ store' = res.coll
                  /\ resp' = Ok("delete", [status |-> "ok"])
                  /\ issued' = {e \in issued : Positions(res.coll, e.oid) # {}}
                  /\ deleted' = deleted \cup {ObjectId[task_id][1]}
  /\ UNCHANGED <<db, nextOid, writes>>

\* The actions above leave the step-by-step state of SpecConc alone.
Sequential == UNCHANGED <<upd, applied, orig>>

\* The store call of some request takes effect and its response is computed;
\* in the disjuncts with fault the store raises during the call.
Serve ==
  \/ \E payload \in CreatePayloads, t \in Times : create_task(payload, t, FALSE)
  \/ \E payload \in CreatePayloads : create_task(payload, 0, TRUE)
  \/ \E cq \in ListQueries : list_tasks(cq[1], cq[2], FALSE)
  \/ list_tasks(None, None, TRUE)
  \/ \E task_id \in TaskIds, payload \in UpdatePayloads, t \in Times :
       update_task(task_id, payload, t, FALSE)
  \/ \E task_id \in TaskIds : update_task(task_id, NoUpdate, 0, TRUE)
  \/ \E task_id \in TaskIds : delete_task(task_id, FALSE)
  \/ \E task_id \in TaskIds : delete_task(task_id, TRUE)

\* The response in hand goes out to the client.
Return ==
  /\ resp.op # "none"
  /\ req' = NoRequest
  /\ resp' = NoResponse
  /\ UNCHANGED <<db, store, nextOid, writes, issued, deleted>>

\* The responses are looked at one at a time: req and resp hold the request
\* just served and its response until the response has gone out.  No handler
\* reads them, so this leaves out no state of the collection and no response.
Next ==
  \/ resp = NoResponse /\ Serve /\ Sequential
  \/ Return /\ Sequential

Spec == Init /\ [][Next]_vars

(* --------------------- update_task, step by step ----------------------- *)

\* update_task up to the store call: the db check, data and its timestamp t.
UpdBuild(p, task_id, payload, t) ==
  /\ upd[p].pc = "idle"
  /\ IF ~db
     THEN upd' = [upd EXCEPT ![p] = [Idle EXCEPT !.pc = "done", !.status = 500]]
     ELSE upd' = [upd EXCEPT ![p] = [Idle EXCEPT !.pc = "built", !.task_id = task_id,
                                                 !.data = UpdateData(payload, t)]]
  /\ UNCHANGED <<db, store, nextOid, writes, req, resp, issued, deleted, applied, orig>>

\* Variant of UpdApply that writes the fields onto the document as it was
\* first read (a read-modify-write instead of one atomic store call).
UpdApplyStale(p) ==
  /\ upd[p].pc = "built"
  /\ LET oid == ObjectId[upd[p].task_id][1]
     IN IF Positions(store, oid) = {}
        THEN /\ upd' = [upd EXCEPT ![p].pc = "applied"]
             /\ UNCHANGED <<store, writes>>
        ELSE LET i == CHOOSE j \in Positions(store, oid) : TRUE
                 d == SetFields(orig[1], upd[p].data)
             IN /\ store' = [store EXCEPT ![i] = d]
                /\ upd' = [upd EXCEPT ![p].pc = "applied", ![p].result = Some(d)]
                /\ writes' = writes + 1
  /\ applied' = Append(applied, p)
  /\ UNCHANGED <<db, nextOid, req, resp, issued, deleted, orig>>

\* The store call of update_task: find_one_and_update, one atomic step of the store.
UpdApply(p) ==
  /\ upd[p].pc = "built"
  /\ LET r == FindOneAndUpdate(store, ObjectId[upd[p].task_id][1], upd[p].data)
     IN /\ store' = r.coll
        /\ upd' = [upd EXCEPT ![p].pc = "applied", ![p].result = r.result]
        /\ writes' = IF r.result = None THEN writes ELSE writes + 1
  /\ applied' = Append(applied, p)
  /\ UNCHANGED <<db, nextOid, req, resp, issued, deleted, orig>>

\* update_task after the store call: 404 for no result, else the normalised document.
UpdRespond(p) ==
  /\ upd[p].pc = "applied"
  /\ upd' = [upd EXCEPT ![p].pc = "done",
                        ![p].status = IF upd[p].result = None THEN 404 ELSE 200,
                        ![p].result = IF upd[p].result = None THEN None
                                      ELSE Some(Render(upd[p].result[1]))]
  /\ UNCHANGED <<db, store, nextOid, writes, req, resp, issued, deleted, applied, orig>>

\* The task the concurrent updates aim at is created first, unless the
\* collection already holds one.
ConcCreate(payload) ==
  /\ store = <<>>
  /\ create_task(payload, 0, FALSE)
  /\ resp'.status = 200
  /\ orig' = Some(store'[1])
  /\ UNCHANGED <<upd, applied>>

\* The identifier the concurrent requests carry: that of the stored task, or,
\* with no database handle, the first the store would issue.
ConcTargets ==
  IF ~db THEN {OidStr(GenOid(0))}
  ELSE IF orig = None THEN {}
  ELSE {OidStr(orig[1]._id)}

NextConc ==
  \/ \E payload \in CreatePayloads : ConcCreate(payload)
  \/ \E p \in Procs, task_id \in ConcTargets, payload \in ConcPayloads, t \in Times :
       UpdBuild(p, task_id, payload, t)
  \/ \E p \in Procs : UpdApply(p)
  \/ \E p \in Procs : UpdRespond(p)

SpecConc == Init /\ [][NextConc]_vars

(* ---------------------------- diagnostics ------------------------------ *)

\* What db.list_collection_names() can do: return n names or raise with a
\* message of m characters.
CollectionNames(n) == [i \in 1..n |-> i]
ErrorMessage(m) == [i \in 1..m |-> "x"]

\* Variant of ErrorText without the truncation.
ErrorTextWhole(e) == e
\* str(e)[:50]
ErrorText(e) == Take(e, ErrLimit)

\* collections[:10]
FirstCollections(collections) == Take(collections, CollLimit)

\* GET /test.  url, name: whether DATABASE_URL and DATABASE_NAME are set;
\* raises: whether list_collection_names raises e instead of returning collections.
\* Nothing else inside the outer try can raise, so its except clause is never taken.
test_database(url, name, raises, collections, e) ==
  /\ resp' = Ok("test",
       [backend |-> "Running",
        database |-> IF ~db THEN <<"Available but not initialized">>
                     ELSE IF raises THEN <<"Connected but Error: ", ErrorText(e)>>
                     ELSE <<"Connected & Working">>,
        database_url |-> IF url THEN "Set" ELSE "Not Set",
        database_name |-> IF name THEN "Set" ELSE "Not Set",
        connection_status |-> IF db THEN "Connected" ELSE "Not Connected",
        collections |-> IF db /\ ~raises THEN FirstCollections(collections) ELSE <<>>])
  /\ UNCHANGED <<db, store, nextOid, writes, req, issued, deleted>>

NextDiag ==
  \/ \E url \in BOOLEAN, name \in BOOLEAN, n \in 0..MaxColls :
       test_database(url, name, FALSE, CollectionNames(n), <<>>) /\ Sequential
  \/ \E url \in BOOLEAN, name \in BOOLEAN, m \in 0..MaxErrLen :
       test_database(url, name, TRUE, <<>>, ErrorMessage(m)) /\ Sequential

SpecDiag == Init /\ [][NextDiag]_vars

(* ============================ properties =============================== *)

RemoveAt(s, j) == SubSeq(s, 1, j - 1) \o SubSeq(s, j + 1, Len(s))

IsString(o) == o # None /\ Len(o[1]) > 0

\* C1: a successful create_task with title t adds exactly one task and changes
\* no existing one: the unfiltered listing afterwards is the listing before
\* plus one entry, whose id is the id create returned, whose title is t and
\* whose completed is false.
C1_CreateAddsOneTask ==
  [][(req'.op = "create" /\ resp'.status = 200) =>
       LET before == ListBody(store, None, None)
           after == ListBody(store', None, None)
       IN /\ Len(after) = Len(before) + 1
          /\ \A i \in 1..Len(before) : before[i].id # resp'.body.id
          /\ \E j \in 1..Len(after) :
               /\ after[j].id = resp'.body.id
               /\ after[j].title = req'.payload.title
               /\ after[j].completed = Some(FALSE)
               /\ RemoveAt(after, j) = before]_vars

\* C1 witness: create has answered with an id while an older task is stored.
C1_Witness ==
  /\ resp.op = "create" /\ resp.status = 200
  /\ Len(store) = 2
  /\ \E j \in 1..Len(store) : OidStr(store[j]._id) = resp.body.id

\* C2: a successful update_task changes, in the task it names, exactly the
\* fields the payload gives a non-null value, and updated_at, which becomes the
\* server time the request read, whatever the payload (the response reports
\* the same); its identifier, created_at and every omitted or null field keep
\* their values, and every other task is unchanged.
C2_UpdateChangesOnlySupplied ==
  [][(req'.op = "update" /\ resp'.status = 200) =>
       /\ ObjectId[req'.task_id] # None
       /\ Len(store') = Len(store)
       /\ \E i \in 1..Len(store) :
            /\ store[i]._id = ObjectId[req'.task_id][1]
            /\ \A j \in 1..Len(store) : j # i => store'[j] = store[j]
            /\ DOMAIN store'[i] = DOMAIN store[i]
            /\ \A k \in UpdateFields :
                 store'[i][k] = IF req'.payload[k] # None THEN req'.payload[k]
                                ELSE store[i][k]
            /\ store'[i]._id = store[i]._id
            /\ store'[i].created_at = store[i].created_at
            /\ store'[i].updated_at = req'.t
            /\ resp'.body.updated_at = IsoFormat(req'.t)]_vars

\* C2 witness: an update that supplied only completed has been answered, the
\* task still has its title and description, updated_at is past created_at,
\* and another task is stored beside it.
C2_Witness ==
  /\ resp.op = "update" /\ resp.status = 200
  /\ Len(store) = 2
  /\ \E i \in 1..Len(store) :
       /\ OidStr(store[i]._id) = resp.body.id
       /\ store[i].completed = Some(TRUE)
       /\ store[i].title = Some(<<"c", ".">>)
       /\ store[i].description = Some(<<"a", "B">>)
       /\ store[i].updated_at > store[i].created_at

\* C3: update_task and delete_task with a well-formed identifier that matches
\* no stored task, the store answering, answer 404 and leave the store
\* unchanged, and a task that was deleted is never stored again.
C3_MissingIsNotFound ==
  [][/\ (/\ req'.op \in {"update", "delete"}
         /\ db /\ ~req'.fault
         /\ ObjectId[req'.task_id] # None
         /\ Positions(store, ObjectId[req'.task_id][1]) = {}) =>
          resp'.status = 404 /\ store' = store
     /\ \A oid \in deleted' : Positions(store', oid) = {}]_vars

\* C3 witness: an update has been answered 404 after a task was deleted.
C3_Witness ==
  /\ resp.op = "update" /\ resp.status = 404
  /\ deleted # {}
  /\ store = <<>>

\* C5: delete_task on the identifier of a stored task answers {status: ok}
\* and removes exactly that task: one task fewer, none with that identifier,
\* every other task as it was.
C5_DeleteRemovesExactlyOne ==
  [][(/\ req'.op = "delete"
      /\ db /\ ~req'.fault
      /\ ObjectId[req'.task_id] # None
      /\ Positions(store, ObjectId[req'.task_id][1]) # {}) =>
       LET oid == ObjectId[req'.task_id][1]
       IN /\ resp' = Ok("delete", [status |-> "ok"])
          /\ Len(store') = Len(store) - 1
          /\ Positions(store', oid) = {}
          /\ \A i \in 1..Len(store) :
               store[i]._id # oid => \E j \in 1..Len(store') : store'[j] = store[i]]_vars

\* C5 witness: a delete has been answered ok and one task is left.
C5_Witness ==
  /\ resp.op = "delete" /\ resp.status = 200
  /\ Len(store) = 1 /\ Cardinality(deleted) = 1

\* C6: the id a successful create_task returned, passed as it is to
\* update_task or delete_task while that task has not been deleted, is
\* answered neither 404 nor 500, and the request acts on the task that create
\* inserted and on no other.
C6_CreatedIdRoundTrip ==
  [][\A e \in issued :
       (req'.op \in {"update", "delete"} /\ ~req'.fault /\ req'.task_id = e.id) =>
         /\ resp'.status = 200
         /\ \E i \in 1..Len(store) : store[i]._id = e.oid
         /\ req'.op = "update" =>
              /\ resp'.body.id = e.id
              /\ Len(store') = Len(store)
              /\ \A i \in 1..Len(store) :
                   IF store[i]._id = e.oid
                   THEN store'[i] = SetFields(store[i], UpdateData(req'.payload, req'.t))
                   ELSE store'[i] = store[i]
         /\ req'.op = "delete" =>
              /\ \A i \in 1..Len(store') : store'[i]._id # e.oid
              /\ \A i \in 1..Len(store) :
                   store[i]._id # e.oid =>
                     \E j \in 1..Len(store') : store'[j] = store[i]]_vars

\* C6 witness: an update has been answered with the id create_task returned
\* for the second task it inserted, and that task is the one returned.
C6_Witness ==
  /\ resp.op = "update" /\ resp.status = 200
  /\ Len(store) = 2
  /\ \E e \in issued :
       /\ e.id = resp.body.id
       /\ store[2]._id = e.oid
       /\ resp.body.title = store[2].title

\* C7: update_task and delete_task answer 500, never 404, and leave the store
\* unchanged when the identifier is malformed or the database handle is None;
\* the 404 of a missing task reaches the caller as 404.
C7_ServerErrorNotNotFound ==
  [][req'.op \in {"update", "delete"} =>
       /\ (~db \/ ObjectId[req'.task_id] = None) =>
            resp'.status = 500 /\ store' = store
       /\ (/\ db /\ ~req'.fault
           /\ ObjectId[req'.task_id] # None
           /\ Positions(store, ObjectId[req'.task_id][1]) = {}) =>
            resp'.status = 404]_vars

\* C7 witness: a delete with a malformed identifier has been answered 500
\* while a task is stored.
C7_Witness ==
  /\ resp.op = "delete" /\ resp.status = 500
  /\ resp.body.detail[1] = "not a valid ObjectId"
  /\ Len(store) > 0

\* C9 as stated: every stored task has a title that is a non-empty string.
C9_TitleNonEmpty ==
  \A i \in 1..Len(store) : IsString(store[i].title)

\* What C4 says list_tasks(category, q) returns: the stored tasks whose
\* category equals the given category and which contain the given q, up to
\* case, in the title or the description.
Contains(value, q) ==
  /\ value # None
  /\ \E i \in 0..(Len(value[1]) - Len(q)) :
       \A j \in 1..Len(q) : Lower(q[j]) = Lower(value[1][i + j])
Satisfies(doc, category, q) ==
  /\ TruthyStr(category) => doc.category = category
  /\ TruthyText(q) => Contains(doc.title, q[1]) \/ Contains(doc.description, q[1])

\* C4 as stated: list_tasks returns exactly the stored tasks that satisfy every
\* given filter (a filter is given when it is a non-empty string), and does not
\* change the store.
C4_ListReturnsSubstringMatches ==
  [][(req'.op = "list" /\ db /\ ~req'.fault) =>
       /\ store' = store
       /\ resp'.status = 200
       /\ LET docs == SelectSeq(store, LAMBDA d : Satisfies(d, req'.category, req'.q))
          IN resp'.body = [i \in 1..Len(docs) |-> Render(docs[i])]]_vars

\* The value field k ends with when the updates are applied one after another
\* in this order: that of the last update supplying k, else the original one.
Suppliers(order, k) == {i \in 1..Len(order) : k \in DOMAIN upd[order[i]].data}
SerialValue(order, k) ==
  IF Suppliers(order, k) = {} THEN orig[1][k]
  ELSE LET i == CHOOSE j \in Suppliers(order, k) : \A l \in Suppliers(order, k) : l <= j
       IN upd[order[i]].data[k]
Orders == {f \in [1..NProcs -> Procs] : \A i, j \in 1..NProcs : f[i] = f[j] => i = j}

\* C8: once concurrent update_task requests for one identifier have all taken
\* effect, the stored task is what applying them one after another in some
\* order gives: every field has the value of the last update in that order
\* that supplied it, or the original value if none did.
C8_UpdatesSerialise ==
  (\A p \in Procs : upd[p].pc \in {"applied", "done"} /\ upd[p].result # None) =>
     /\ Len(store) = 1
     /\ \E order \in Orders :
          /\ DOMAIN store[1] = DOMAIN orig[1]
          /\ \A k \in DOMAIN store[1] : store[1][k] = SerialValue(order, k)

\* C8 witness: two updates are done; the one that set only the title read the
\* clock first and took effect last, after the one that set title, description,
\* category, due_date and priority; the task has the title and the older
\* updated_at of the former and the rest of the latter.
C8_Witness ==
  /\ \A p \in Procs : upd[p].pc = "done" /\ upd[p].status = 200
  /\ \E p, q \in Procs :
       /\ DOMAIN upd[p].data = {"title", "updated_at"}
       /\ "category" \in DOMAIN upd[q].data
       /\ upd[p].data.updated_at < upd[q].data.updated_at
       /\ store[1].updated_at = upd[p].data.updated_at
  /\ store[1].title = Some(<<>>)
  /\ store[1].category = Some("home")

\* C10: every response of test_database is a 200; it holds at most 10
\* collection names; when listing the collections raised, the error text in
\* it has at most 50 characters and collections is empty; with no database
\* handle collections is empty too.
C10_DiagnosticsNeverFails ==
  resp.op = "test" =>
    /\ resp.status = 200
    /\ Len(resp.body.collections) <= 10
    /\ resp.body.database[1] = "Connected but Error: " =>
         /\ Len(resp.body.database[2]) <= 50
         /\ resp.body.collections = <<>>
    /\ ~db => /\ resp.body.database = <<"Available but not initialized">>
              /\ resp.body.collections = <<>>

\* C10 witness: listing raised with more than 50 characters and the response
\* carries exactly 50 of them.
C10_Witness ==
  /\ resp.op = "test" /\ resp.status = 200
  /\ resp.body.database[1] = "Connected but Error: "
  /\ Len(resp.body.database[2]) = 50
  /\ resp.body.collections = <<>>

====
